---- MODULE Spec2Model ----
(***************************************************************************)
(* The Stremio proxy wrapper: per-configuration manifest discovery and     *)
(* merge at start-up, and the per-request fan-out / merge of catalog,      *)
(* meta, stream and subtitles requests over the bound upstream addons.     *)
(*                                                                         *)
(* The repository holds five revisions of the same server.  The model      *)
(* runs one of them per behaviour, chosen by `variant`:                    *)
(*   "index_a"   src/index.js lines 1-210   (channel pre-fetch)            *)
(*   "index_b"   src/index.js lines 211-390 (channel -> movie relabel)     *)
(*   "part_000"  src/unnamed/part_000                                      *)
(*   "part_001"  src/unnamed/part_001                                      *)
(*   "part_002"  src/unnamed/part_002                                      *)
(*                                                                         *)
(* Strings that the code takes apart (raw base URLs, legacy paths) are     *)
(* sequences of tokens.  In a base URL the token "m" stands for the text   *)
(* manifest.json, "M" for the same text in another letter case, " " for    *)
(* a whitespace character, "/" for a slash and any other token for URL     *)
(* text that holds none of these.                                          *)
(***************************************************************************)
EXTENDS Integers, Sequences, FiniteSets, TLC

\* Number of distinct upstream bases named by the configuration file.
MaxBases == 2
\* Longest raw base string, in tokens, drawn by the normalization check.
MaxLen == 3

Variants == {"index_a", "index_b", "part_000", "part_001", "part_002"}

\* The files under configs/, by name.  A request for a name without a
\* readable file finds no store entry, as a request for any other name does.
ConfigFiles == {"demo"}
ConfigNames == ConfigFiles

----------------------------------------------------------------------------
(* Generic sequence helpers (JavaScript array methods).                    *)

RECURSIVE Flatten(_)
Flatten(ss) == IF ss = <<>> THEN <<>> ELSE Head(ss) \o Flatten(Tail(ss))

RECURSIVE SelectIdx(_, _)
\* the indices i of 1..n, ascending, for which keep[i] holds
SelectIdx(n, keep) ==
  IF n = 0 THEN <<>>
  ELSE LET rest == SelectIdx(n - 1, keep)
       IN IF keep[n] THEN Append(rest, n) ELSE rest

Range(s) == {s[i] : i \in 1..Len(s)}

Count(s, e) == Cardinality({i \in 1..Len(s) : s[i] = e})

\* mutant: of equal entries the last one stays
DedupeKeepLast(s) ==
  LET idx == SelectIdx(Len(s), [i \in 1..Len(s) |->
                                  \A j \in (i + 1)..Len(s) : s[j] # s[i]])
  IN [k \in 1..Len(idx) |-> s[idx[k]]]

\* Array.from(new Set(s)): first occurrences, in order
RECURSIVE Dedupe(_)
Dedupe(s) ==
  IF s = <<>> THEN <<>>
  ELSE LET front == Dedupe(SubSeq(s, 1, Len(s) - 1))
           last  == s[Len(s)]
       IN IF last \in Range(front) THEN front ELSE Append(front, last)

----------------------------------------------------------------------------
(* Upstream Registry: normalization of TARGET_ADDON_BASES.                 *)

RECURSIVE TrimLeft(_)
TrimLeft(u) == IF u # <<>> /\ Head(u) = " " THEN TrimLeft(Tail(u)) ELSE u

RECURSIVE TrimRight(_)
TrimRight(u) ==
  IF u # <<>> /\ u[Len(u)] = " " THEN TrimRight(SubSeq(u, 1, Len(u) - 1)) ELSE u

\* String.prototype.trim
Trim(u) == TrimRight(TrimLeft(u))

\* .replace(/\/manifest\.json$/i, ''): one trailing "/manifest.json", any case
StripManifest(u) ==
  IF Len(u) >= 2 /\ u[Len(u)] \in {"m", "M"} /\ u[Len(u) - 1] = "/"
  THEN SubSeq(u, 1, Len(u) - 2)
  ELSE u

RECURSIVE StripSlashes(_)
\* .replace(/\/+$/, ''): every trailing slash
StripSlashes(u) ==
  IF u # <<>> /\ u[Len(u)] = "/" THEN StripSlashes(SubSeq(u, 1, Len(u) - 1)) ELSE u

\* the callback of .map(...)
NormalizeOne(u) == StripSlashes(StripManifest(Trim(u)))

\* Array.from(new Set(raw.map(...).filter(Boolean)))
Normalize(raw) ==
  Dedupe(SelectSeq([i \in 1..Len(raw) |-> NormalizeOne(raw[i])],
                   LAMBDA u : u # <<>>))

----------------------------------------------------------------------------
(* Upstream manifests.  A manifest field that the code reads as an array   *)
(* is an array, missing, or present with a truthy value that is no array.  *)

Arr(s)    == [tag |-> "array", val |-> s]
Absent    == [tag |-> "absent", val |-> <<>>]
Malformed == [tag |-> "malformed", val |-> <<>>]

Cat(id, type) == [kind |-> "entry", id |-> id, type |-> type]
\* a non-array `catalogs` value that flatMap copied into the merged list
RawCatalogs == [kind |-> "raw", id |-> "undefined", type |-> "undefined"]
\* a non-array `types` / `idPrefixes` value that flatMap copied
RawValue == "<non-array value>"

ManifestA == [catalogs   |-> Arr(<<Cat("top", "movie")>>),
              types      |-> Arr(<<"movie">>),
              idPrefixes |-> Arr(<<"tt">>)]
ManifestB == [catalogs   |-> Arr(<<Cat("top", "movie"), Cat("tv", "channel")>>),
              types      |-> Arr(<<"movie", "channel">>),
              idPrefixes |-> Arr(<<"tt", "ch">>)]
ManifestC == [catalogs   |-> Absent,
              types      |-> Malformed,
              idPrefixes |-> Absent]
ManifestD == [catalogs   |-> Malformed,
              types      |-> Absent,
              idPrefixes |-> Malformed]
Manifests == {ManifestA, ManifestB, ManifestC, ManifestD}

NoManifest == [catalogs |-> Absent, types |-> Absent, idPrefixes |-> Absent]

\* What GET <base>/manifest.json gives: a rejected call (network error,
\* non-2xx), a fulfilled call with a falsy body, or a manifest.
FetchOutcomes ==
  {[status |-> "rejected", hasData |-> FALSE, data |-> NoManifest],
   [status |-> "fulfilled", hasData |-> FALSE, data |-> NoManifest]}
  \cup {[status |-> "fulfilled", hasData |-> TRUE, data |-> m] : m \in Manifests}

PendingFetch == [status |-> "pending", hasData |-> FALSE, data |-> NoManifest]

\* URL text of the i-th upstream host
HostTokens == <<"a", "b", "c", "d">>
Host(i) == <<HostTokens[i]>>
Hosts == {Host(i) : i \in 1..MaxBases}

\* one raw spelling per host: " a/manifest.json", "b//", "c/MANIFEST.JSON/ " ...
RawSpelling(i) ==
  CASE i % 3 = 1 -> <<" ">> \o Host(i) \o <<"/", "m">>
    [] i % 3 = 2 -> Host(i) \o <<"/", "/">>
    [] OTHER     -> Host(i) \o <<"/", "M", " ">>

\* TARGET_ADDON_BASES of configs/demo.json: every host once, the first host
\* again in two other spellings ("a/" and "a/MANIFEST.JSON "), and an entry
\* that is only a slash
DemoBases ==
  [i \in 1..MaxBases |-> RawSpelling(i)]
  \o <<Host(1) \o <<"/">>, Host(1) \o <<"/", "M", " ">>, <<" ", "/">>>>

\* configs/<name>.json: unreadable, without the field, or with the list
Unreadable == [readable |-> FALSE, bases |-> <<>>]
CfgFiles == {Unreadable,
             [readable |-> TRUE, bases |-> <<>>],
             [readable |-> TRUE, bases |-> DemoBases]}

\* the array an upstream returns under the expected key when it answers well
Block(b) ==
  CASE b = Host(1) -> <<"e1", "e2">>
    [] b = Host(2) -> <<"e1">>
    [] OTHER       -> <<"e3", "e1">>

----------------------------------------------------------------------------
VARIABLES
  variant,           \* which revision of the server runs
  cfgFile,           \* configs/<name>.json of each configuration file
  upManifest,        \* what each upstream answers to GET /manifest.json
  init,              \* initConfig(name): its position and its locals
  configs,           \* the global `configs`
  wrapperManifests,  \* the global `wrapperManifests`
  req,               \* the request being handled, with its outbound calls
  normIn,            \* normalization check: the raw list
  normOut            \* normalization check: the successive normal forms

vars == <<variant, cfgFile, upManifest, init, configs, wrapperManifests, req,
          normIn, normOut>>

world == <<variant, cfgFile, upManifest>>
store == <<configs, wrapperManifests>>
norm  == <<normIn, normOut>>

----------------------------------------------------------------------------
(* The configuration store and initConfig.                                 *)

Binding(b, m) == [base |-> b, manifest |-> m]

\* configs[name]: not yet assigned, or the list of bindings
UnsetConfig == [defined |-> FALSE, list |-> <<>>]
SetConfig(bms) == [defined |-> TRUE, list |-> bms]

\* wrapperManifests[name]: not yet assigned, or the synthesized manifest
NoWrapper == [defined |-> FALSE, resources |-> <<>>, types |-> <<>>,
              idPrefixes |-> <<>>, catalogs |-> <<>>, channels |-> <<>>,
              channelCatalogIds |-> <<>>]

\* mutant: the first failed fetch ends the pass over the results
BuildBaseManifestsFailFast(bases, results) ==
  LET keep == [i \in 1..Len(bases) |->
                 \A j \in 1..i : results[j].status = "fulfilled" /\ results[j].hasData]
      idx  == SelectIdx(Len(bases), keep)
  IN [k \in 1..Len(idx) |-> Binding(bases[idx[k]], results[idx[k]].data)]

\* results.forEach((r, i) => { if (fulfilled && r.value.data) push(...) })
BuildBaseManifests(bases, results) ==
  LET keep == [i \in 1..Len(bases) |->
                 results[i].status = "fulfilled" /\ results[i].hasData]
      idx  == SelectIdx(Len(bases), keep)
  IN [k \in 1..Len(idx) |-> Binding(bases[idx[k]], results[idx[k]].data)]

\* manifests.flatMap(m => m.<field> || []): an array gives its elements, a
\* missing field nothing, any other truthy value itself as one element
FlatMapField(bms, field, raw) ==
  Flatten([i \in 1..Len(bms) |->
             LET f == bms[i].manifest[field]
             IN CASE f.tag = "array"  -> f.val
                  [] f.tag = "absent" -> <<>>
                  [] OTHER            -> <<raw>>])

\* mutant: a union by id instead of a concatenation
AllCatalogsById(bms) ==
  LET all == FlatMapField(bms, "catalogs", RawCatalogs)
  IN SelectSeq([i \in 1..Len(all) |->
                  IF \E j \in 1..(i - 1) : all[j].id = all[i].id
                  THEN RawCatalogs ELSE all[i]],
               LAMBDA c : c # RawCatalogs)

AllCatalogs(bms) == FlatMapField(bms, "catalogs", RawCatalogs)

\* index_b: allCatalogs.map(c => c.type === 'channel' ? {...c, type:'movie'} : c)
WrappedCatalogs(bms) ==
  LET all == AllCatalogs(bms)
  IN [i \in 1..Len(all) |->
        IF all[i].type = "channel" THEN [all[i] EXCEPT !.type = "movie"]
        ELSE all[i]]

\* index_b: allCatalogs.filter(c => c.type === 'channel').map(c => c.id)
ChannelCatalogIds(bms) ==
  LET ch == SelectSeq(AllCatalogs(bms), LAMBDA c : c.type = "channel")
  IN [i \in 1..Len(ch) |-> ch[i].id]

WrapperCatalogs(v, bms) ==
  IF v = "index_b" THEN WrappedCatalogs(bms) ELSE AllCatalogs(bms)

WrapperTypes(v, bms) ==
  LET union == Dedupe(FlatMapField(bms, "types", RawValue))
  IN IF v = "index_b" THEN SelectSeq(union, LAMBDA t : t # "channel") ELSE union

WrapperResources(v) ==
  IF v \in {"index_a", "part_001"}
  THEN <<"catalog", "meta", "stream", "subtitles", "channels">>
  ELSE <<"catalog", "meta", "stream", "subtitles">>

\* the object literal `wrapper` (identity, version, logo and icon left out:
\* nothing reads them back)
BuildWrapper(v, bms) ==
  [defined           |-> TRUE,
   resources         |-> WrapperResources(v),
   types             |-> WrapperTypes(v, bms),
   idPrefixes        |-> Dedupe(FlatMapField(bms, "idPrefixes", RawValue)),
   catalogs          |-> WrapperCatalogs(v, bms),
   channels          |-> <<>>,
   channelCatalogIds |-> IF v = "index_b" THEN ChannelCatalogIds(bms) ELSE <<>>]

\* mutant: the loops pre-fetch every catalog, whatever its type
RECURSIVE PrefetchPlanAnyType(_)
PrefetchPlanAnyType(bms) ==
  IF bms = <<>> THEN <<>>
  ELSE LET bm == Head(bms)
           f  == bm.manifest.catalogs
       IN CASE f.tag = "malformed" -> <<[op |-> "throw", base |-> bm.base, id |-> "none"]>>
            [] f.tag = "absent"    -> PrefetchPlanAnyType(Tail(bms))
            [] OTHER ->
                 [i \in 1..Len(f.val) |->
                    [op |-> "post", base |-> bm.base, id |-> f.val[i].id]]
                 \o PrefetchPlanAnyType(Tail(bms))

\* index_a, the pre-fetch loops: one POST <base>/catalog {id} per
\* channel-typed catalog, in binding order; .filter on a non-array
\* `catalogs` throws when the outer loop reaches that binding
RECURSIVE PrefetchPlan(_)
PrefetchPlan(bms) ==
  IF bms = <<>> THEN <<>>
  ELSE LET bm == Head(bms)
           f  == bm.manifest.catalogs
       IN CASE f.tag = "malformed" -> <<[op |-> "throw", base |-> bm.base, id |-> "none"]>>
            [] f.tag = "absent"    -> PrefetchPlan(Tail(bms))
            [] OTHER ->
                 LET ch == SelectSeq(f.val, LAMBDA c : c.type = "channel")
                 IN [i \in 1..Len(ch) |->
                       [op |-> "post", base |-> bm.base, id |-> ch[i].id]]
                    \o PrefetchPlan(Tail(bms))

\* what one outbound resource call can come to: rejected (network error,
\* non-2xx), fulfilled without an array under the expected key, or
\* fulfilled with the upstream's array
CallOutcomes == {"failed", "noarray", "ok"}

Answer(b, outcome) == IF outcome = "ok" THEN Block(b) ELSE <<>>

\* the locals of initConfig; `fetched` keeps what each pre-fetch call that
\* has settled came to, in the order of the calls
InitStart == [pc |-> "start", bases |-> <<>>, results |-> <<>>,
              wrapper |-> NoWrapper, plan |-> <<>>, fetched |-> <<>>]

\* index_a: where the pre-fetch loop stands with `plan` left and the
\* channel entries gathered so far in w.channels; `mine` are the locals
PrefetchContinue(name, mine, w, plan) ==
  IF plan = <<>>
  THEN /\ wrapperManifests' = [wrapperManifests EXCEPT ![name] = w]
       /\ init' = [init EXCEPT ![name] =
                     [mine EXCEPT !.pc = "done", !.wrapper = w, !.plan = <<>>]]
  ELSE /\ UNCHANGED wrapperManifests
       /\ init' = [init EXCEPT ![name] =
                     [mine EXCEPT !.pc = IF Head(plan).op = "throw" THEN "crashed"
                                         ELSE "prefetch",
                                  !.wrapper = w,
                                  !.plan = plan]]

\* mutant: no early return when no manifest was fetched
initConfigStoreNoReturn(name, mine) ==
  LET bms == BuildBaseManifests(mine.bases, mine.results)
  IN /\ configs' = [configs EXCEPT ![name] = SetConfig(bms)]
     /\ wrapperManifests' =
          [wrapperManifests EXCEPT ![name] = BuildWrapper(variant, bms)]
     /\ init' = [init EXCEPT ![name] = [mine EXCEPT !.pc = "done"]]

\* mutant: one binding list and one manifest shared by every configuration
initConfigStoreShared(name, mine) ==
  LET bms == BuildBaseManifests(mine.bases, mine.results)
  IN /\ configs' = [n \in DOMAIN configs |-> SetConfig(bms)]
     /\ wrapperManifests' =
          [n \in DOMAIN wrapperManifests |->
             IF bms = <<>> THEN wrapperManifests[n] ELSE BuildWrapper(variant, bms)]
     /\ init' = [init EXCEPT ![name] = [mine EXCEPT !.pc = "done"]]

\* initConfig from the end of Promise.allSettled on: the two store writes
initConfigStore(name, mine) ==
  LET bms == BuildBaseManifests(mine.bases, mine.results)
  IN /\ configs' = [configs EXCEPT ![name] = SetConfig(bms)]
     /\ IF bms = <<>>
        THEN /\ init' = [init EXCEPT ![name] = [mine EXCEPT !.pc = "done"]]
             /\ UNCHANGED wrapperManifests
        ELSE IF variant = "index_a"
        THEN PrefetchContinue(name, mine, BuildWrapper(variant, bms), PrefetchPlan(bms))
        ELSE /\ wrapperManifests' =
                  [wrapperManifests EXCEPT ![name] = BuildWrapper(variant, bms)]
             /\ init' = [init EXCEPT ![name] =
                           [mine EXCEPT !.pc = "done",
                                        !.wrapper = BuildWrapper(variant, bms)]]

\* await Promise.allSettled(...): suspended while a GET is pending, and on
\* in the same turn of the event loop once none is
AwaitAllSettled(name, mine) ==
  IF \E i \in 1..Len(mine.results) : mine.results[i].status = "pending"
  THEN /\ init' = [init EXCEPT ![name] = [mine EXCEPT !.pc = "fetching"]]
       /\ UNCHANGED store
  ELSE initConfigStore(name, mine)

\* initConfig(name) as called at start-up: read the file, normalize the
\* bases, issue one GET <base>/manifest.json each
initConfig(name) ==
  /\ init[name].pc = "start"
  /\ IF ~cfgFile[name].readable
     THEN /\ init' = [init EXCEPT ![name].pc = "done"]
          /\ UNCHANGED store
     ELSE LET bases == Normalize(cfgFile[name].bases)
          IN AwaitAllSettled(name,
               [init[name] EXCEPT !.bases = bases,
                                  !.results = [i \in 1..Len(bases) |-> PendingFetch]])
  /\ UNCHANGED <<world, req, norm>>

\* one GET <base>/manifest.json settles
manifestSettled(name, i) ==
  /\ init[name].pc = "fetching"
  /\ i \in 1..Len(init[name].results)
  /\ init[name].results[i].status = "pending"
  /\ AwaitAllSettled(name,
       [init[name] EXCEPT !.results[i] = upManifest[init[name].bases[i]]])
  /\ UNCHANGED <<world, req, norm>>

\* index_a: one pre-fetch POST settles; its metas are pushed, the loop goes on
prefetchSettled(name, outcome) ==
  /\ init[name].pc = "prefetch"
  /\ LET call == Head(init[name].plan)
         w    == [init[name].wrapper EXCEPT
                    !.channels = @ \o Answer(call.base, outcome)]
     IN PrefetchContinue(name,
                         [init[name] EXCEPT !.fetched = Append(@, outcome)],
                         w, Tail(init[name].plan))
  /\ UNCHANGED <<world, configs, req, norm>>

\* app.listen runs after every initConfig reached its first await
Listening == \A n \in ConfigFiles : init[n].pc # "start"

----------------------------------------------------------------------------
(* Requests.                                                               *)

Ids   == {"top", "tv"}
\* req.body.type; "none" is a body without the field
Types == {"movie", "channel", "none"}
PostBodies == [id : Ids, type : Types]
NoBody == [id |-> "none", type |-> "none"]

PostEndpoints == {"catalog", "meta", "stream", "subtitles"}

\* the POST requests drawn: every body on /catalog, /stream and /subtitles,
\* and two bodies on /meta, which shares its handler's key with /catalog,
\* and on /channels
FewBodies == {[id |-> "top", type |-> "movie"], [id |-> "tv", type |-> "channel"]}
PostRequests ==
  {<<e, b>> : e \in {"catalog", "stream", "subtitles"}, b \in PostBodies}
  \cup {<<e, b>> : e \in {"meta", "channels"}, b \in FewBodies}

\* trailing paths of GET /:config/<path>, as tokens
LegacyRoutes ==
  {<<"catalog", "/", t, "/", x, ".json">> : t \in {"movie", "channel"}, x \in Ids}
  \cup {<<"catalog", "/", "top", ".json">>,
        <<"stream", "/", "movie", "/", "top", ".json">>,
        <<"subtitles", "/", "movie", "/", "top", ".json">>,
        <<"channels", "/", "tv", ".json">>,
        <<"foo", "/", "bar">>}

NoResp == [status |-> 0, key |-> "none", arr |-> <<>>, manifest |-> NoWrapper]
Resp(status, key, arr) ==
  [status |-> status, key |-> key, arr |-> arr, manifest |-> NoWrapper]

NoReq == [pc |-> "idle", method |-> "none", config |-> "none", path |-> <<>>,
          body |-> NoBody, handler |-> "none", key |-> "none", mode |-> "none",
          bases |-> <<>>, calls |-> <<>>, outcome |-> <<>>, arrival |-> <<>>,
          combined |-> <<>>, resp |-> NoResp]

NewReq(method, cfg, path, body, handler) ==
  [NoReq EXCEPT !.method = method, !.config = cfg, !.path = path,
                !.body = body, !.handler = handler]

\* configs[name] || []
BasesOf(name) == configs[name].list

\* mutant: the lookup stores its default, configs[name] = configs[name] || []
ReadStoreDefaulting(name) ==
  /\ configs' = [configs EXCEPT ![name] = SetConfig(@.list)]
  /\ UNCHANGED wrapperManifests

\* what a handler does to the store: it reads configs[name] and
\* wrapperManifests[name] into locals and assigns neither
ReadStore(name) == UNCHANGED store

\* (bm.manifest.catalogs || []).some(c => c.id === id), on an array or a
\* missing field
HasCatalog(bm, id) ==
  \E k \in 1..Len(bm.manifest.catalogs.val) : bm.manifest.catalogs.val[k].id = id

\* .some is no function of a non-array value: the filter callback throws
CatalogsThrow(bases) ==
  \E i \in 1..Len(bases) : bases[i].manifest.catalogs.tag = "malformed"

\* mutant: an upstream whose types is no array passes the filter
TypesIncludeOrUndeclared(bm, t) ==
  bm.manifest.types.tag # "array" \/ t \in Range(bm.manifest.types.val)

\* Array.isArray(bm.manifest.types) && bm.manifest.types.includes(t)
TypesInclude(bm, t) ==
  bm.manifest.types.tag = "array" /\ t \in Range(bm.manifest.types.val)

AllIdx(bases) == [i \in 1..Len(bases) |-> i]
ByCatalog(bases, id) ==
  SelectIdx(Len(bases), [i \in 1..Len(bases) |-> HasCatalog(bases[i], id)])
ByType(bases, t) ==
  SelectIdx(Len(bases), [i \in 1..Len(bases) |-> TypesInclude(bases[i], t)])

\* mutant: the catalog filter applies to channel requests as well
TargetsAlwaysFiltered(key, body, bases) ==
  IF key = "metas" THEN ByCatalog(bases, body.id) ELSE AllIdx(bases)

\* makeHandler of part_000 and part_002: `targets`, as indices into `bases`
TargetsPlain(key, body, bases) ==
  IF key = "metas" /\ body.type # "channel"
  THEN ByCatalog(bases, body.id)
  ELSE AllIdx(bases)

\* makeHandler of part_001: both filters narrow `targets`
TargetsChannelAware(key, body, bases) ==
  LET t1 == TargetsPlain(key, body, bases)
  IN IF key = "streams" /\ body.type = "channel"
     THEN SelectSeq(t1, LAMBDA i : TypesInclude(bases[i], "channel"))
     ELSE t1

\* mutant: every typed request is narrowed by the manifests' types, not
\* the stream requests alone
TargetsTypedAnyKey(key, body, bases) ==
  IF body.type # "none" THEN ByType(bases, body.type) ELSE AllIdx(bases)

\* makeHandler of index_a: four filters in a row, each from `bases`
TargetsTyped(key, body, bases) ==
  LET t0 == AllIdx(bases)
      t1 == IF key = "metas" /\ body.type # "channel"
            THEN ByCatalog(bases, body.id) ELSE t0
      t2 == IF key = "streams" /\ body.type = "channel"
            THEN ByType(bases, "channel") ELSE t1
      t3 == IF key = "metas" /\ body.type # "channel"
            THEN ByCatalog(bases, body.id) ELSE t2
  IN IF key = "streams" /\ body.type # "none"
     THEN ByType(bases, body.type) ELSE t3

\* makeHandler: the targets of a POST resource request
PostTargets(v, key, body, bases) ==
  CASE v = "index_a"  -> TargetsTyped(key, body, bases)
    [] v = "index_b"  -> AllIdx(bases)
    [] v = "part_001" -> TargetsChannelAware(key, body, bases)
    [] OTHER          -> TargetsPlain(key, body, bases)

\* whether computing the targets throws in the filter callback
PostThrows(v, key, body, bases) ==
  /\ v # "index_b"
  /\ key = "metas" /\ body.type # "channel"
  /\ CatalogsThrow(bases)

\* mutant: the remap applies on every endpoint, not on /stream alone
ForwardBodyEveryEndpoint(v, endpoint, body, w) ==
  IF v = "index_b" /\ body.id \in Range(w.channelCatalogIds)
  THEN [id |-> body.id, type |-> "channel"]
  ELSE body

\* index_b: the body of the outbound POST
ForwardBody(v, endpoint, body, w) ==
  IF v = "index_b" /\ endpoint = "stream" /\ body.id \in Range(w.channelCatalogIds)
  THEN [id |-> body.id, type |-> "channel"]
  ELSE body

\* how the handler waits for its calls: "settled" is Promise.allSettled and
\* a pass over the results, "pushed" is Promise.all over callbacks that push
\* as they finish, "loop" is one awaited call per iteration
\* mutant: every revision pushes from the calls' continuations
PostModePushed(v) == IF v = "index_b" THEN "loop" ELSE "pushed"

PostMode(v) ==
  CASE v = "index_b"  -> "loop"
    [] v = "part_000" -> "pushed"
    [] OTHER          -> "settled"

\* mutant: the legacy handler of part_002 pushes from the continuations too
LegacyModePushed(v) ==
  IF v \in {"index_a", "index_b"} THEN "loop" ELSE "pushed"

LegacyMode(v) ==
  CASE v \in {"index_a", "index_b"} -> "loop"
    [] v = "part_002"               -> "settled"
    [] OTHER                        -> "pushed"

KeyOf(endpoint) ==
  CASE endpoint \in {"catalog", "meta"} -> "metas"
    [] endpoint = "stream"              -> "streams"
    [] endpoint = "subtitles"           -> "subtitles"
    [] OTHER                            -> "channels"

Call(b, verb, url, body) == [base |-> b, verb |-> verb, url |-> url, body |-> body]

\* mutant: every target is called a second time
FanoutTwice(r, key, mode, bases, calls) ==
  [r EXCEPT !.pc = "fanout", !.key = key, !.mode = mode, !.bases = bases,
            !.calls = calls \o calls,
            !.outcome = [i \in 1..(2 * Len(calls)) |->
                           IF mode = "loop" /\ i > 1 THEN "unsent" ELSE "pending"]]

\* the handler issues its calls and suspends: all of them at once, or in a
\* loop the first one only
Fanout(r, key, mode, bases, calls) ==
  [r EXCEPT !.pc = "fanout", !.key = key, !.mode = mode, !.bases = bases,
            !.calls = calls,
            !.outcome = [i \in 1..Len(calls) |->
                           IF mode = "loop" /\ i > 1 THEN "unsent" ELSE "pending"]]

Respond(r, status, key, arr) ==
  [r EXCEPT !.pc = "responded", !.key = key, !.resp = Resp(status, key, arr)]

\* an exception leaves the async handler: Express 4 sends nothing
Crash(r) == [r EXCEPT !.pc = "crashed"]

\* the last pending call has settled: the handler merges and answers in the
\* same turn of the event loop
Finished(r) == \A i \in 1..Len(r.outcome) : r.outcome[i] \notin {"pending", "unsent"}

\* mutant: Promise.all in place of Promise.allSettled, one rejection
\* loses every result
MergeAllOrNothing(calls, outcome) ==
  IF \E i \in 1..Len(calls) : outcome[i] = "failed" THEN <<>>
  ELSE Flatten([i \in 1..Len(calls) |-> Answer(calls[i].base, outcome[i])])

\* mutant: a union of the results instead of a concatenation
MergeDeduped(calls, outcome) ==
  Dedupe(Flatten([i \in 1..Len(calls) |-> Answer(calls[i].base, outcome[i])]))

\* results.forEach(r => { if (fulfilled && Array.isArray(data[key])) push })
MergeSettled(calls, outcome) ==
  Flatten([i \in 1..Len(calls) |-> Answer(calls[i].base, outcome[i])])

Combined(r) ==
  IF r.mode = "settled" THEN MergeSettled(r.calls, r.outcome) ELSE r.combined

\* mutant: first match wins, the answer goes out with the first good result
AnswerFirstMatch(r) ==
  IF Finished(r) \/ \E i \in 1..Len(r.outcome) : r.outcome[i] = "ok"
  THEN [r EXCEPT !.pc = "responded", !.combined = Combined(r),
                 !.resp = Resp(200, r.key, Combined(r))]
  ELSE r

\* res.json({ [key]: combined }) once nothing is awaited any more
AnswerWhenDone(r) ==
  IF Finished(r)
  THEN [r EXCEPT !.pc = "responded", !.combined = Combined(r),
                 !.resp = Resp(200, r.key, Combined(r))]
  ELSE r

\* the CORS middleware answers OPTIONS itself
optionsPreflight(cfg, path) ==
  /\ Listening /\ req.pc = "idle"
  /\ req' = [Respond(NewReq("OPTIONS", cfg, path, NoBody, "cors"), 200, "none", <<>>)
               EXCEPT !.key = "none"]
  /\ UNCHANGED <<world, init, store, norm>>

\* GET /:config/manifest.json
getManifest(cfg) ==
  /\ Listening /\ req.pc = "idle"
  /\ LET r == NewReq("GET", cfg, <<"manifest.json">>, NoBody, "manifest")
         w == wrapperManifests[cfg]
     IN req' = IF ~w.defined
               THEN Respond(r, 404, "error", <<>>)
               ELSE [Respond(r, 200, "manifest", <<>>) EXCEPT !.resp.manifest = w]
  /\ ReadStore(cfg)
  /\ UNCHANGED <<world, init, norm>>

\* POST /:config/{catalog,meta,stream,subtitles}, and in index_a
\* POST /:config/channels: the handler makeHandler(key, endpoint) returns
makeHandler(cfg, endpoint, body) ==
  /\ Listening /\ req.pc = "idle"
  /\ endpoint = "channels" => variant = "index_a"
  /\ LET key   == KeyOf(endpoint)
         r     == NewReq("POST", cfg, <<endpoint>>, body, "makeHandler")
         bases == BasesOf(cfg)
         w     == wrapperManifests[cfg]
         tg    == PostTargets(variant, key, body, bases)
     IN req' =
          IF bases = <<>> THEN Respond(r, 200, key, <<>>)
          ELSE IF PostThrows(variant, key, body, bases) THEN Crash(r)
          ELSE AnswerWhenDone(
                 Fanout(r, key, PostMode(variant), bases,
                        [k \in 1..Len(tg) |->
                           Call(bases[tg[k]].base, "POST", <<endpoint>>,
                                ForwardBody(variant, endpoint, body, w))]))
  /\ ReadStore(cfg)
  /\ UNCHANGED <<world, init, norm>>

\* part_001 and part_002, POST /:config/channels: every base's /catalog,
\* its metas answered under `channels`
postChannels(cfg, body) ==
  /\ Listening /\ req.pc = "idle"
  /\ variant \in {"part_001", "part_002"}
  /\ LET r     == NewReq("POST", cfg, <<"channels">>, body, "postChannels")
         bases == BasesOf(cfg)
     IN req' =
          IF bases = <<>> THEN Respond(r, 200, "channels", <<>>)
          ELSE Fanout(r, "channels", "pushed", bases,
                      [k \in 1..Len(bases) |->
                         Call(bases[k].base, "POST", <<"catalog">>, body)])
  /\ ReadStore(cfg)
  /\ UNCHANGED <<world, init, norm>>

\* part_000 and index_b route no POST /:config/channels: Express answers 404
noRoute(cfg, body) ==
  /\ Listening /\ req.pc = "idle"
  /\ variant \in {"part_000", "index_b"}
  /\ req' = Respond(NewReq("POST", cfg, <<"channels">>, body, "none"),
                    404, "error", <<>>)
  /\ UNCHANGED <<world, init, store, norm>>

\* index_a, GET /:config/channels
getChannels(cfg) ==
  /\ Listening /\ req.pc = "idle"
  /\ variant = "index_a"
  /\ LET r == NewReq("GET", cfg, <<"channels">>, NoBody, "getChannels")
         w == wrapperManifests[cfg]
     IN req' = IF ~w.defined
               THEN Respond(r, 404, "channels", <<>>)
               ELSE Respond(r, 200, "channels", w.channels)
  /\ ReadStore(cfg)
  /\ UNCHANGED <<world, init, norm>>

----------------------------------------------------------------------------
(* The legacy GET fallback, GET /:config/<path>.                         *)

RECURSIVE Split(_)
\* String.prototype.split('/')
Split(route) ==
  IF \A i \in 1..Len(route) : route[i] # "/" THEN <<route>>
  ELSE LET k == CHOOSE i \in 1..Len(route) :
                  route[i] = "/" /\ \A j \in 1..(i - 1) : route[j] # "/"
       IN <<SubSeq(route, 1, k - 1)>> \o Split(SubSeq(route, k + 1, Len(route)))

\* .replace('.json', ''): the first occurrence only
ReplaceJson(seg) ==
  IF \A i \in 1..Len(seg) : seg[i] # ".json" THEN seg
  ELSE LET k == CHOOSE i \in 1..Len(seg) :
                  seg[i] = ".json" /\ \A j \in 1..(i - 1) : seg[j] # ".json"
       IN SubSeq(seg, 1, k - 1) \o SubSeq(seg, k + 1, Len(seg))

\* the string a token sequence spells, as far as catalog ids can equal it
TextOf(seg) ==
  CASE Len(seg) = 1 -> seg[1]
    [] Len(seg) = 0 -> ""
    [] OTHER        -> "<longer text>"

\* route.startsWith('<prefix>/')
StartsWith(route, prefix) ==
  Len(route) >= 2 /\ route[1] = prefix /\ route[2] = "/"

\* the if / else-if chain over the prefixes; "none" is the final else
LegacyKey(v, route) ==
  CASE StartsWith(route, "catalog")   -> "metas"
    [] StartsWith(route, "stream")    -> "streams"
    [] StartsWith(route, "subtitles") -> "subtitles"
    [] StartsWith(route, "channels") /\ v \in {"index_a", "part_001"} -> "channels"
    [] OTHER -> "none"

\* whether the handler filters by catalog id for this key
LegacyFilters(v, key) ==
  CASE v \in {"part_000", "part_002"} -> key = "metas"
    [] v = "part_001"                 -> key \in {"metas", "channels"}
    [] OTHER                          -> FALSE

\* the path segment the id is taken from: parts[2], in part_001 parts[1]
LegacyIdAt(v) == IF v = "part_001" THEN 2 ELSE 3

\* part_000: route.split('/')[2].replace(...) on a path of two segments
LegacyIdThrows(v, route) ==
  v = "part_000" /\ Len(Split(route)) < LegacyIdAt(v)

\* the catalog id the filter compares with; parts[2]?.replace of part_002
\* gives undefined on a path of two segments
LegacyId(v, route) ==
  LET parts == Split(route)
  IN IF Len(parts) < LegacyIdAt(v) THEN "undefined"
     ELSE TextOf(ReplaceJson(parts[LegacyIdAt(v)]))

LegacyTargets(v, key, route, bases) ==
  IF LegacyFilters(v, key) THEN ByCatalog(bases, LegacyId(v, route))
  ELSE AllIdx(bases)

LegacyThrows(v, key, route, bases) ==
  /\ LegacyFilters(v, key)
  /\ LegacyIdThrows(v, route) \/ CatalogsThrow(bases)

legacyGet(cfg, route) ==
  /\ Listening /\ req.pc = "idle"
  /\ route = <<"channels">> => variant # "index_a"
  /\ LET bases == BasesOf(cfg)
         r     == [NewReq("GET", cfg, route, NoBody, "legacyGet")
                     EXCEPT !.bases = bases]
         key   == LegacyKey(variant, route)
         tg    == LegacyTargets(variant, key, route, bases)
     IN req' =
          IF bases = <<>> THEN Respond(r, 404, "error", <<>>)
          ELSE IF key = "none" THEN Respond(r, 404, "error", <<>>)
          ELSE IF LegacyThrows(variant, key, route, bases) THEN Crash(r)
          ELSE AnswerWhenDone(
                 Fanout(r, key, LegacyMode(variant), bases,
                        [k \in 1..Len(tg) |->
                           Call(bases[tg[k]].base, "GET", route, NoBody)]))
  /\ ReadStore(cfg)
  /\ UNCHANGED <<world, init, norm>>

\* one outbound call of the request settles
callSettled(i, outcome) ==
  /\ req.pc = "fanout"
  /\ i \in 1..Len(req.calls)
  /\ req.outcome[i] = "pending"
  /\ LET push == req.mode \in {"pushed", "loop"} /\ outcome = "ok"
         r1 == [req EXCEPT
                  !.outcome = [k \in 1..Len(req.calls) |->
                                 IF k = i THEN outcome
                                 ELSE IF req.mode = "loop" /\ k = i + 1 THEN "pending"
                                 ELSE req.outcome[k]],
                  !.arrival = IF outcome = "ok" THEN Append(@, i) ELSE @,
                  !.combined = IF push THEN @ \o Block(req.calls[i].base) ELSE @]
     IN req' = AnswerWhenDone(r1)
  /\ UNCHANGED <<world, init, store, norm>>

\* the exchange is over: the response went out, or the handler died
finish ==
  /\ req.pc \in {"responded", "crashed"}
  /\ req' = NoReq
  /\ UNCHANGED <<world, init, store, norm>>

----------------------------------------------------------------------------
(* The server.                                                             *)

Init ==
  /\ variant \in Variants
  /\ cfgFile \in [ConfigFiles -> CfgFiles]
  /\ upManifest \in [Hosts -> FetchOutcomes]
  \* upstreams that no configuration names are never contacted
  /\ \A h \in Hosts :
       (\A n \in ConfigFiles : Normalize(cfgFile[n].bases) = <<>>)
         => upManifest[h].status = "rejected"
  /\ init = [n \in ConfigFiles |-> InitStart]
  /\ configs = [n \in ConfigNames |-> UnsetConfig]
  /\ wrapperManifests = [n \in ConfigNames |-> NoWrapper]
  /\ req = NoReq
  /\ normIn = <<>>
  /\ normOut = <<>>

Next ==
  \/ \E n \in ConfigFiles : initConfig(n)
  \/ \E n \in ConfigFiles, i \in 1..MaxBases : manifestSettled(n, i)
  \/ \E n \in ConfigFiles, o \in CallOutcomes : prefetchSettled(n, o)
  \/ \E c \in ConfigNames : optionsPreflight(c, <<"catalog">>)
  \/ \E c \in ConfigNames : getManifest(c)
  \/ \E c \in ConfigNames, p \in PostRequests : makeHandler(c, p[1], p[2])
  \/ \E c \in ConfigNames, b \in FewBodies : postChannels(c, b)
  \/ \E c \in ConfigNames, b \in FewBodies : noRoute(c, b)
  \/ \E c \in ConfigNames : getChannels(c)
  \/ \E c \in ConfigNames, p \in LegacyRoutes \cup {<<"channels">>} : legacyGet(c, p)
  \/ \E i \in 1..MaxBases, o \in CallOutcomes : callSettled(i, o)
  \/ finish

Spec == Init /\ [][Next]_vars

----------------------------------------------------------------------------
(* The normalization on its own: a raw list is normalized, and its normal  *)
(* form is normalized again.                                               *)

Alphabet == {" ", "/", "m", "M", "a"}

RECURSIVE StringsUpTo(_)
StringsUpTo(n) ==
  IF n = 0 THEN {<<>>}
  ELSE LET shorter == StringsUpTo(n - 1)
       IN shorter \cup {Append(u, t) : u \in shorter, t \in Alphabet}

RawStrings == StringsUpTo(MaxLen)

\* TARGET_ADDON_BASES with one entry, or with two of MaxLen + 1 tokens in all
RawLists ==
  {<<u>> : u \in RawStrings}
  \cup {p \in RawStrings \X RawStrings : Len(p[1]) + Len(p[2]) <= MaxLen + 1}

NormInit ==
  /\ variant = "part_002"
  /\ cfgFile = [n \in ConfigFiles |-> Unreadable]
  /\ upManifest = [h \in Hosts |-> [status |-> "rejected", hasData |-> FALSE,
                                    data |-> NoManifest]]
  /\ init = [n \in ConfigFiles |-> InitStart]
  /\ configs = [n \in ConfigNames |-> UnsetConfig]
  /\ wrapperManifests = [n \in ConfigNames |-> NoWrapper]
  /\ req = NoReq
  /\ normIn \in RawLists
  /\ normOut = <<>>

\* the registry's normalization, applied to the raw list and then to its
\* own output
normalizeAgain ==
  /\ Len(normOut) < 2
  /\ normOut' = Append(normOut,
                       Normalize(IF normOut = <<>> THEN normIn ELSE normOut[Len(normOut)]))
  /\ UNCHANGED <<world, init, store, req, normIn>>

NormNext == normalizeAgain

SpecNorm == NormInit /\ [][NormNext]_vars

----------------------------------------------------------------------------
(* Start-up with two configuration files: Promise.all over initConfig of   *)
(* each, the calls interleaving at their awaits.                           *)

TwoConfigs == {"demo", "other"}

\* configs/<name>.json as before, or naming the first upstream alone
TwoCfgFiles == CfgFiles \cup {[readable |-> TRUE, bases |-> <<Host(1) \o <<"/">>>>]}

\* upstream answers drawn here: unreachable, a manifest with a channel
\* catalog, a manifest whose catalogs is no array
TwoOutcomes ==
  {o \in FetchOutcomes :
     o.status = "rejected" \/ (o.hasData /\ o.data \in {ManifestB, ManifestD})}

TwoInit ==
  /\ variant \in Variants
  /\ cfgFile \in [TwoConfigs -> TwoCfgFiles]
  /\ upManifest \in [Hosts -> TwoOutcomes]
  /\ init = [n \in TwoConfigs |-> InitStart]
  /\ configs = [n \in TwoConfigs |-> UnsetConfig]
  /\ wrapperManifests = [n \in TwoConfigs |-> NoWrapper]
  /\ req = NoReq
  /\ normIn = <<>>
  /\ normOut = <<>>

TwoNext ==
  \/ \E n \in TwoConfigs : initConfig(n)
  \/ \E n \in TwoConfigs, i \in 1..MaxBases : manifestSettled(n, i)
  \/ \E n \in TwoConfigs, o \in CallOutcomes : prefetchSettled(n, o)

SpecTwo == TwoInit /\ [][TwoNext]_vars

----------------------------------------------------------------------------
(* Properties.                                                             *)

RECURSIVE SumOver(_, _)
SumOver(n, f) == IF n = 0 THEN 0 ELSE f[n] + SumOver(n - 1, f)

\* every ordering of a finite set, as sequences
RECURSIVE Orderings(_)
Orderings(S) ==
  IF S = {} THEN {<<>>}
  ELSE UNION {{<<x>> \o o : o \in Orderings(S \ {x})} : x \in S}

Elements == UNION {Range(Block(h)) : h \in Hosts}

\* the request went through a fan-out: it found bindings and issued calls
InFanout == req.pc \in {"fanout", "responded"} /\ req.bases # <<>>
Answered == req.pc = "responded" /\ req.bases # <<>>

PostResource == req.handler = "makeHandler" /\ req.path[1] \in PostEndpoints

OkCalls == {i \in 1..Len(req.calls) : req.outcome[i] = "ok"}

\* the blocks of the calls `ord` names, one after the other
BlocksOf(ord) == Flatten([k \in 1..Len(ord) |-> Block(req.calls[ord[k]].base)])

CallBases == [i \in 1..Len(req.calls) |-> req.calls[i].base]
BoundBases(n) == [k \in 1..Len(configs[n].list) |-> configs[n].list[k].base]

\* upstream b's own manifest lists a catalog with this id
Owns(b, id) ==
  LET f == upManifest[b].data.catalogs
  IN f.tag = "array" /\ \E k \in 1..Len(f.val) : f.val[k].id = id

\* C1: a POST catalog / meta / stream / subtitles request that fanned out is
\* answered with status 200 under its key, and each element occurs in the
\* array exactly as often as the successful calls returned it, however many
\* of the calls failed or came back without an array.
C1_FailuresContributeNothing ==
  (Answered /\ PostResource) =>
    /\ req.resp.status = 200
    /\ req.resp.key = KeyOf(req.path[1])
    /\ \A e \in Elements :
         Count(req.resp.arr, e) =
           SumOver(Len(req.calls),
                   [i \in 1..Len(req.calls) |->
                      IF req.outcome[i] = "ok"
                      THEN Count(Block(req.calls[i].base), e) ELSE 0])

\* a fan-out answered with one call rejected and another call good
C1_Witness ==
  /\ Answered /\ PostResource
  /\ \E i, j \in 1..Len(req.calls) :
       req.outcome[i] = "failed" /\ req.outcome[j] = "ok"
  /\ req.resp.arr # <<>>

\* C2: a POST catalog or meta request whose type is not 'channel' calls only
\* upstreams whose own manifest lists a catalog with the requested id.
C2_OnlyCatalogOwnersCalled ==
  (req.handler = "makeHandler" /\ req.path[1] \in {"catalog", "meta"}
     /\ req.body.type # "channel") =>
    \A i \in 1..Len(req.calls) : Owns(req.calls[i].base, req.body.id)

\* C3: the answered array is the blocks of the successful calls put one
\* after the other in some order of the calls: each block whole and in its
\* own order, nothing else, nothing merged.
C3_StraightConcatenation ==
  Answered => \E ord \in Orderings(OkCalls) : req.resp.arr = BlocksOf(ord)

\* two upstreams returned the same element and the answer holds it twice
C3_Witness ==
  /\ Answered
  /\ Cardinality(OkCalls) >= 2
  /\ \E e \in Elements :
       /\ \A i \in OkCalls : e \in Range(Block(req.calls[i].base))
       /\ Count(req.resp.arr, e) = Cardinality(OkCalls)

\* the key under which a handler answers with an array
ArrayKey ==
  CASE req.handler = "makeHandler" -> KeyOf(req.path[1])
    [] req.handler \in {"postChannels", "getChannels"} -> "channels"
    [] req.handler = "legacyGet" -> LegacyKey(variant, req.path)
    [] OTHER -> "none"

NothingBound(n) == configs[n].list = <<>>

\* C4 as stated: with nothing bound every resource endpoint, the legacy GET
\* of a recognized prefix among them, answers an empty array under its key,
\* and the manifest endpoint answers 404.
C4_EmptyArrayEverywhere ==
  (req.pc = "responded" /\ NothingBound(req.config)) =>
    /\ req.handler = "manifest" => req.resp.status = 404
    /\ (req.handler \in {"makeHandler", "postChannels", "getChannels", "legacyGet"}
          /\ ArrayKey # "none")
         => (req.resp.key = ArrayKey /\ req.resp.arr = <<>>)

\* C4 amended: with nothing bound the POST endpoints answer 200 with an empty
\* array under their key, GET /channels of index_a answers an empty channels
\* array with status 404, the manifest endpoint answers 404, and the legacy
\* GET answers 404 with an error body whatever its path.
C4_EmptyOrNotFound ==
  (req.pc = "responded" /\ NothingBound(req.config)) =>
    /\ req.handler = "manifest" => (req.resp.status = 404 /\ req.resp.key = "error")
    /\ req.handler \in {"makeHandler", "postChannels"} =>
         (req.resp.status = 200 /\ req.resp.key = ArrayKey /\ req.resp.arr = <<>>)
    /\ req.handler = "getChannels" =>
         (req.resp.status = 404 /\ req.resp.key = "channels" /\ req.resp.arr = <<>>)
    /\ req.handler = "legacyGet" => (req.resp.status = 404 /\ req.resp.key = "error")

\* every manifest fetch failed, and a legacy GET of a catalog path was answered
C4_Witness ==
  /\ req.pc = "responded" /\ req.handler = "legacyGet"
  /\ StartsWith(req.path, "catalog")
  /\ configs[req.config].defined /\ NothingBound(req.config)
  /\ init[req.config].bases # <<>>

\* C5: a POST stream request with a type other than 'channel' calls every
\* bound upstream.
C5_StreamCallsEveryBase ==
  (InFanout /\ req.handler = "makeHandler" /\ req.path[1] = "stream"
     /\ req.body.type # "channel") =>
    Range(CallBases) = Range(BoundBases(req.config))

\* the handlers that wait with Promise.allSettled and then walk the results
SettlesThenWalks ==
  \/ req.handler = "makeHandler" /\ variant \in {"index_a", "part_001", "part_002"}
  \/ req.handler = "legacyGet" /\ variant = "part_002"

\* C6 as stated: the blocks stand in the order in which the calls completed.
C6_CompletionOrder ==
  Answered => req.resp.arr = BlocksOf(req.arrival)

\* C6 amended: the blocks stand in the order in which the calls completed in
\* the handlers that push from each call's continuation or await call by
\* call, and in the order of the targets, whatever the completion order, in
\* the handlers that wait with Promise.allSettled and walk the results.
C6_CompletionOrTargetOrder ==
  Answered =>
    IF SettlesThenWalks
    THEN req.resp.arr = BlocksOf(SelectSeq([i \in 1..Len(req.calls) |-> i],
                                           LAMBDA i : req.outcome[i] = "ok"))
    ELSE req.resp.arr = BlocksOf(req.arrival)

\* the second target answered before the first, and its block comes first
C6_Witness ==
  /\ Answered /\ ~SettlesThenWalks
  /\ Len(req.arrival) >= 2 /\ req.arrival[1] > req.arrival[2]
  /\ req.resp.arr = BlocksOf(req.arrival)
  /\ Block(req.calls[req.arrival[1]].base) # Block(req.calls[req.arrival[2]].base)

\* C7: GET /{config}/catalog/T/X.json calls the same upstreams as
\* POST /{config}/catalog {id: X, type: T} would on the same bindings, and
\* answers under the same key.
C7_LegacyAgreesWithPost ==
  \A t \in {"movie", "channel"}, x \in Ids :
    (req.handler = "legacyGet" /\ req.bases # <<>>
       /\ req.path = <<"catalog", "/", t, "/", x, ".json">>) =>
      LET body == [id |-> x, type |-> t]
          tg   == PostTargets(variant, "metas", body, req.bases)
      IN IF PostThrows(variant, "metas", body, req.bases)
         THEN req.pc = "crashed"
         ELSE /\ req.pc # "crashed"
              /\ CallBases = [k \in 1..Len(tg) |-> req.bases[tg[k]].base]
              /\ req.key = "metas"

\* C8: normalizing a normalized list again changes nothing.
C8_NormalizeIdempotent ==
  Len(normOut) = 2 => normOut[2] = normOut[1]

\* catalogs fields the claim speaks of: an array, or no field at all
CatalogsWellFormed(n) ==
  \A k \in 1..Len(configs[n].list) :
    configs[n].list[k].manifest.catalogs.tag # "malformed"

\* the catalogs arrays the bound upstreams served, in binding order
ServedCatalogs(n) ==
  Flatten([k \in 1..Len(configs[n].list) |->
             upManifest[configs[n].list[k].base].data.catalogs.val])

\* C9 as stated: the synthesized catalogs are the bound upstreams' catalogs
\* arrays one after the other in binding order, every entry unchanged.
C9_CatalogsConcatenated ==
  \A n \in ConfigNames :
    (wrapperManifests[n].defined /\ CatalogsWellFormed(n)) =>
      wrapperManifests[n].catalogs = ServedCatalogs(n)

\* C9 amended: the synthesized catalogs are the bound upstreams' catalogs
\* arrays one after the other in binding order, duplicates by id kept, every
\* entry unchanged except that the relabelling revision (index_b) gives each
\* channel-typed entry the type 'movie'.
C9_CatalogsConcatenatedRelabelled ==
  \A n \in ConfigNames :
    (wrapperManifests[n].defined /\ CatalogsWellFormed(n)) =>
      LET served == ServedCatalogs(n)
          w      == wrapperManifests[n].catalogs
      IN /\ Len(w) = Len(served)
         /\ \A i \in 1..Len(served) :
              /\ w[i].id = served[i].id
              /\ w[i].kind = served[i].kind
              /\ w[i].type = IF variant = "index_b" /\ served[i].type = "channel"
                             THEN "movie" ELSE served[i].type

\* two bound upstreams list the same catalog id, one of them a channel
\* catalog too, and the relabelling revision synthesized the manifest
C9_Witness ==
  \E n \in ConfigNames :
    /\ variant = "index_b"
    /\ wrapperManifests[n].defined /\ CatalogsWellFormed(n)
    /\ Len(configs[n].list) >= 2
    /\ Count([i \in 1..Len(wrapperManifests[n].catalogs) |->
                wrapperManifests[n].catalogs[i].id], "top") >= 2
    /\ \E i \in 1..Len(ServedCatalogs(n)) : ServedCatalogs(n)[i].type = "channel"

Fetched(b) == upManifest[b].status = "fulfilled" /\ upManifest[b].hasData

\* C10: once configs[name] is written it holds exactly the canonical bases
\* whose manifest request succeeded with a body, each with the manifest it
\* served, in the order of the canonical list; and every outbound resource
\* call, the pre-fetch calls included, goes to a bound base.
C10_BindingsAreTheFetched ==
  \A n \in ConfigFiles :
    /\ configs[n].defined =>
         LET ok == SelectSeq(Normalize(cfgFile[n].bases), Fetched)
         IN configs[n].list =
              [k \in 1..Len(ok) |-> Binding(ok[k], upManifest[ok[k]].data)]
    /\ req.config = n =>
         \A i \in 1..Len(req.calls) : req.calls[i].base \in Range(BoundBases(n))
    /\ init[n].pc = "prefetch" => Head(init[n].plan).base \in Range(BoundBases(n))

\* the first canonical base failed, a later one is bound, and a request
\* was dispatched to it
C10_Witness ==
  \E n \in ConfigFiles :
    /\ configs[n].defined
    /\ Len(configs[n].list) >= 1
    /\ ~Fetched(Normalize(cfgFile[n].bases)[1])
    /\ req.config = n /\ req.pc = "responded" /\ Len(req.calls) >= 1

\* C11: whenever requests can be served, a configuration whose binding list
\* is populated has its synthesized manifest in the store as well: no
\* request finds bindings to dispatch to while the manifest endpoint still
\* answers 404.
C11_StoreEntryAtomic ==
  \A n \in ConfigNames :
    (Listening /\ configs[n].list # <<>>) => wrapperManifests[n].defined

\* C12: a step of request handling (a request arriving at any route, one of
\* its outbound calls settling, its response going out) leaves configs and
\* wrapperManifests as they were; only initConfig writes them.
C12_RequestsLeaveStore ==
  [][req' # req => (configs' = configs /\ wrapperManifests' = wrapperManifests)]_vars

\* a fan-out over a bound configuration was answered, one of its calls
\* failed, and the store entry is the one initConfig wrote
C12_Witness ==
  /\ req.pc = "responded" /\ req.handler \in {"makeHandler", "legacyGet"}
  /\ \E i \in 1..Len(req.calls) : req.outcome[i] = "failed"
  /\ configs[req.config].list = req.bases
  /\ wrapperManifests[req.config].defined

\* the bases of the bindings the handler found, in binding order
FoundBases == [k \in 1..Len(req.bases) |-> req.bases[k].base]

\* C13: a POST catalog or meta request whose type is 'channel' issues a call
\* to every bound upstream, in binding order, whether or not the upstream's
\* manifest lists a catalog with the requested id.
C13_ChannelSkipsCatalogFilter ==
  (InFanout /\ req.handler = "makeHandler" /\ req.path[1] \in {"catalog", "meta"}
     /\ req.body.type = "channel") =>
    /\ CallBases = FoundBases
    /\ FoundBases = BoundBases(req.config)

\* a channel request was dispatched to an upstream that lists no catalog
\* with the requested id
C13_Witness ==
  /\ InFanout /\ req.handler = "makeHandler" /\ req.path[1] \in {"catalog", "meta"}
  /\ req.body.type = "channel"
  /\ \E i \in 1..Len(req.calls) : ~Owns(req.calls[i].base, req.body.id)
  /\ \E i \in 1..Len(req.calls) : Owns(req.calls[i].base, req.body.id)

\* C14: a POST subtitles request issues a call to every bound upstream, in
\* binding order, whatever id and type its body carries and whatever the
\* upstreams' manifests list.
C14_SubtitlesCallEveryBase ==
  (InFanout /\ req.handler = "makeHandler" /\ req.path[1] = "subtitles") =>
    /\ CallBases = FoundBases
    /\ FoundBases = BoundBases(req.config)

\* a subtitles request of a type and an id that one bound upstream neither
\* declares nor lists was dispatched to that upstream and to another one
C14_Witness ==
  /\ InFanout /\ req.handler = "makeHandler" /\ req.path[1] = "subtitles"
  /\ Len(req.calls) >= 2
  /\ \E i \in 1..Len(req.calls) :
       /\ ~Owns(req.calls[i].base, req.body.id)
       /\ ~TypesInclude(req.bases[i], req.body.type)

\* the ids of the channel-typed catalogs the bound upstreams of n list
ChannelIdsBound(n) ==
  UNION {{c.id : c \in {e \in Range(configs[n].list[k].manifest.catalogs.val) :
                          e.type = "channel"}} :
         k \in 1..Len(configs[n].list)}

\* C15 as stated: every outbound POST of a resource request carries the
\* client's body unchanged.
C15_BodyUnchanged ==
  req.method = "POST" =>
    \A i \in 1..Len(req.calls) : req.calls[i].body = req.body

\* C15 amended: every outbound POST of a resource request carries the
\* client's body unchanged, except that the relabelling revision (index_b)
\* sends {id, type: 'channel'} in place of the body of a stream request
\* whose id is the id of a channel-typed catalog of a bound upstream.
C15_BodyUnchangedOrRemapped ==
  req.method = "POST" =>
    \A i \in 1..Len(req.calls) :
      /\ req.calls[i].verb = "POST"
      /\ req.calls[i].body =
           IF variant = "index_b" /\ req.path[1] = "stream"
              /\ req.body.id \in ChannelIdsBound(req.config)
           THEN [id |-> req.body.id, type |-> "channel"]
           ELSE req.body

\* the relabelling revision forwarded a movie-typed stream request for a
\* channel catalog's id as a channel request
C15_Witness ==
  /\ variant = "index_b" /\ InFanout
  /\ req.method = "POST" /\ req.path[1] = "stream"
  /\ req.body.type = "movie"
  /\ Len(req.calls) >= 1 /\ req.calls[1].body.type = "channel"

\* C16: a bound manifest whose catalogs, types or idPrefixes field is missing
\* or is no array counts as one with an empty array there: initConfig runs
\* to its end, no request is left unanswered because of such a field, and
\* the synthesized manifest holds no such value.
C16_TotalOverManifests ==
  /\ \A n \in ConfigFiles : init[n].pc # "crashed"
  /\ \A n \in ConfigNames :
       /\ RawCatalogs \notin Range(wrapperManifests[n].catalogs)
       /\ RawValue \notin Range(wrapperManifests[n].types)
       /\ RawValue \notin Range(wrapperManifests[n].idPrefixes)
  /\ req.pc = "crashed" => ~CatalogsThrow(BasesOf(req.config))

\* initConfig(n) has returned or thrown
InitOver(n) == init[n].pc \in {"done", "crashed"}

\* the bindings n's own file and its own upstreams' answers give
OwnBindings(n) ==
  LET bases == Normalize(cfgFile[n].bases)
  IN BuildBaseManifests(bases, [i \in 1..Len(bases) |-> upManifest[bases[i]]])

\* the store entries of n are those of n's initialization run on its own
OwnFinalStore(n) ==
  IF ~cfgFile[n].readable
  THEN configs[n] = UnsetConfig /\ wrapperManifests[n] = NoWrapper
  ELSE /\ configs[n] = SetConfig(OwnBindings(n))
       /\ IF OwnBindings(n) = <<>> \/ init[n].pc = "crashed"
          THEN wrapperManifests[n] = NoWrapper
          ELSE [wrapperManifests[n] EXCEPT !.channels = <<>>]
                 = BuildWrapper(variant, OwnBindings(n))

\* initConfig(n) waits for nothing but calls of its own: it has not begun,
\* or one of its manifest GETs is pending, or its pre-fetch POST is
CanGoOn(n) ==
  \/ init[n].pc = "start"
  \/ /\ init[n].pc = "fetching"
     /\ \E i \in 1..Len(init[n].results) : init[n].results[i].status = "pending"
  \/ init[n].pc = "prefetch" /\ init[n].plan # <<>>

\* C17: with two configurations initialized side by side, an initialization
\* that is not over can always take its next step whatever state the other
\* one is in (unreadable file, every upstream failed, thrown error), it ends
\* with the store entries it would have written on its own, and every step
\* of one initialization leaves the other configuration's entries alone.
C17_InitializationsIsolated ==
  /\ [](\A n \in TwoConfigs : ~InitOver(n) => CanGoOn(n))
  /\ [](\A n \in TwoConfigs : InitOver(n) => OwnFinalStore(n))
  /\ [][\A n \in TwoConfigs :
          init'[n] = init[n] =>
            (configs'[n] = configs[n] /\ wrapperManifests'[n] = wrapperManifests[n])]_vars

\* the initialization of one configuration threw after its first store
\* write, and the other configuration is fully initialized
C17_Witness ==
  \E n, m \in TwoConfigs :
    /\ n # m
    /\ init[n].pc = "crashed" /\ configs[n].defined
    /\ init[m].pc = "done" /\ wrapperManifests[m].defined
    /\ Len(configs[m].list) >= 1

\* the prefixes the legacy GET of the running revision recognizes
LegacyPrefixKey ==
  [catalog |-> "metas", stream |-> "streams", subtitles |-> "subtitles",
   channels |-> "channels"]
RecognizedPrefixes ==
  {"catalog", "stream", "subtitles"}
  \cup (IF variant \in {"index_a", "part_001"} THEN {"channels"} ELSE {})
Recognized(route) ==
  Len(route) >= 2 /\ route[1] \in RecognizedPrefixes /\ route[2] = "/"

\* C18: for a configuration with bindings, a legacy GET whose path starts
\* with no recognized prefix is answered 404 and issues no call, and one
\* whose path starts with a recognized prefix fans out and is answered with
\* the merged array under that prefix's key.
C18_LegacyPrefixRouting ==
  (req.handler = "legacyGet" /\ req.bases # <<>>) =>
    IF Recognized(req.path)
    THEN /\ req.pc \in {"fanout", "responded"}
         /\ req.pc = "responded" =>
              /\ req.resp.status = 200
              /\ req.resp.key = LegacyPrefixKey[req.path[1]]
              /\ req.resp.arr = Combined(req)
    ELSE /\ req.pc = "responded"
         /\ req.resp.status = 404 /\ req.resp.key = "error"
         /\ req.calls = <<>>

\* the request is one for a resource: a POST resource endpoint, or a legacy
\* GET of a recognized prefix
ResourceRequest ==
  \/ req.handler \in {"makeHandler", "postChannels"}
  \/ req.handler = "legacyGet" /\ Recognized(req.path)

\* the targets the handler selected among the bindings it found, as indices
Selected ==
  CASE req.handler = "makeHandler" ->
         PostTargets(variant, req.key, req.body, req.bases)
    [] req.handler = "legacyGet" ->
         LegacyTargets(variant, req.key, req.path, req.bases)
    [] OTHER -> AllIdx(req.bases)

\* C19: a resource request that found bindings issues one call to each
\* selected target, in the order of the selection, and none to any other
\* upstream; a call that has settled, failed or not, is never issued again
\* and no call is added later; with no target selected no call is issued
\* and the answer is an empty array with status 200.
C19_OneCallPerTarget ==
  /\ []((InFanout /\ ResourceRequest) =>
          /\ CallBases = [k \in 1..Len(Selected) |-> req.bases[Selected[k]].base]
          /\ \A b \in Hosts :
               Count(CallBases, b) =
                 IF \E k \in 1..Len(Selected) : req.bases[Selected[k]].base = b
                 THEN 1 ELSE 0
          /\ Selected = <<>> =>
               /\ req.pc = "responded" /\ req.calls = <<>>
               /\ req.resp = Resp(200, ArrayKey, <<>>))
  /\ [][(req.pc = "fanout" /\ req' # req) =>
          /\ req'.calls = req.calls \/ req' = NoReq
          /\ \A i \in 1..Len(req.calls) :
               req.outcome[i] \in CallOutcomes =>
                 (req' = NoReq \/ req'.outcome[i] = req.outcome[i])]_vars

\* of two bound upstreams one was selected, its single call failed, and the
\* request was answered with an empty array
C19_Witness ==
  /\ Answered /\ ResourceRequest
  /\ Len(req.bases) >= 2 /\ Len(req.calls) = 1
  /\ req.outcome[1] = "failed"
  /\ req.resp = Resp(200, ArrayKey, <<>>)

\* C20: a response goes out only when every call of the request has settled
\* and goes out in the step in which the last one settles; once it is out
\* the exchange only ends: no second response, no call settling afterwards.
C20_AnswerAfterAllSettled ==
  /\ [](req.pc = "responded" =>
          \A i \in 1..Len(req.calls) : req.outcome[i] \in CallOutcomes)
  /\ [](req.pc = "fanout" =>
          \E i \in 1..Len(req.calls) : req.outcome[i] = "pending")
  /\ [][(req.pc = "responded" /\ req' # req) => req' = NoReq]_vars

\* a fan-out of two calls was answered after a success and then a failure
C20_Witness ==
  /\ Answered /\ ResourceRequest
  /\ Len(req.calls) >= 2
  /\ req.outcome[1] = "ok" /\ req.outcome[2] = "failed"
  /\ req.resp.arr = Block(req.calls[1].base)

\* C21: no handler raises an error that leaves its request unanswered: a
\* request of any shape, a legacy GET of a two-segment catalog path among
\* them, never ends in a handler that threw before sending a response.
C21_NoRequestLeftUnanswered ==
  req.pc # "crashed"

\* C22: in the handlers that wait with Promise.allSettled and then walk the
\* results, the answered array is fixed by the bindings and the upstreams'
\* answers alone: the blocks of the upstreams that answered well, in binding
\* order, whichever call completed first.
C22_BindingOrderWhateverCompletes ==
  (Answered /\ SettlesThenWalks) =>
    req.resp.arr =
      Flatten([k \in 1..Len(req.bases) |->
                 IF \E i \in 1..Len(req.calls) :
                      req.calls[i].base = req.bases[k].base /\ req.outcome[i] = "ok"
                 THEN Block(req.bases[k].base) ELSE <<>>])

\* the call to the second binding completed before the call to the first,
\* and the answer still lists the first binding's block first
C22_Witness ==
  /\ Answered /\ SettlesThenWalks
  /\ Len(req.arrival) = 2 /\ req.arrival = <<2, 1>>
  /\ req.resp.arr = Block(req.bases[1].base) \o Block(req.bases[2].base)
  /\ req.resp.arr # BlocksOf(req.arrival)

\* the canonical forms of the raw entries, each at the place of the first
\* raw entry that has it, the empty ones left out
FirstSeen(raw) ==
  LET canon == [i \in 1..Len(raw) |-> NormalizeOne(raw[i])]
      idx   == SelectIdx(Len(raw),
                         [i \in 1..Len(raw) |->
                            canon[i] # <<>> /\ \A j \in 1..(i - 1) : canon[j] # canon[i]])
  IN [k \in 1..Len(idx) |-> canon[idx[k]]]

\* FirstSeen of each configuration file's list
FirstSeenOf == [f \in CfgFiles |-> FirstSeen(f.bases)]

\* C23: the bases initConfig works with are the canonical forms of the raw
\* entries, one per canonical URL at the place of the first entry that
\* normalizes to it and none for an entry that normalizes to the empty
\* string; one manifest GET is issued per base and no base is bound twice.
C23_OneBasePerCanonicalUrl ==
  \A n \in ConfigFiles :
    (cfgFile[n].readable /\ init[n].pc # "start") =>
      /\ init[n].bases = FirstSeenOf[cfgFile[n]]
      /\ Len(init[n].results) = Len(init[n].bases)
      /\ \A b \in Range(init[n].bases) :
           /\ b # <<>>
           /\ Count(init[n].bases, b) = 1
           /\ Count(BoundBases(n), b) <= 1

\* two raw spellings of one upstream and an entry that is only a slash were
\* read, and the upstream is fetched once and bound once
C23_Witness ==
  \E n \in ConfigFiles :
    /\ init[n].pc = "done"
    /\ \E i, j \in 1..Len(cfgFile[n].bases) :
         /\ i < j /\ cfgFile[n].bases[i] # cfgFile[n].bases[j]
         /\ NormalizeOne(cfgFile[n].bases[i]) = NormalizeOne(cfgFile[n].bases[j])
         /\ Count(BoundBases(n), NormalizeOne(cfgFile[n].bases[i])) = 1
         /\ init[n].bases[1] = NormalizeOne(cfgFile[n].bases[i])
    /\ \E i \in 1..Len(cfgFile[n].bases) : NormalizeOne(cfgFile[n].bases[i]) = <<>>
    /\ Len(init[n].results) = Len(init[n].bases)
    /\ Len(init[n].bases) < Len(cfgFile[n].bases) - 1

\* upstream b's own manifest has a types array that includes 'channel'
DeclaresChannel(b) ==
  LET f == upManifest[b].data.types
  IN f.tag = "array" /\ "channel" \in Range(f.val)

\* C24: in the channel-aware revisions (part_001 and the first revision of
\* index.js) a POST stream request of type 'channel' calls exactly the bound
\* upstreams whose manifest types is an array that includes 'channel', in
\* binding order; one whose types is missing, no array or without 'channel'
\* gets no call.
C24_ChannelStreamsByType ==
  (variant \in {"index_a", "part_001"} /\ InFanout
     /\ req.handler = "makeHandler" /\ req.path[1] = "stream"
     /\ req.body.type = "channel") =>
    CallBases = SelectSeq(BoundBases(req.config), DeclaresChannel)

\* of two bound upstreams the one that declares 'channel' was called and
\* the one whose types is missing or no array was not
C24_Witness ==
  /\ variant \in {"index_a", "part_001"} /\ InFanout
  /\ req.handler = "makeHandler" /\ req.path[1] = "stream"
  /\ req.body.type = "channel"
  /\ Len(req.bases) = 2 /\ Len(req.calls) = 1
  /\ \E k \in 1..2 :
       /\ req.bases[k].base # req.calls[1].base
       /\ req.bases[k].manifest.types.tag # "array"

\* the relabelling revision's manifest hides the channel category: no
\* catalog of type 'channel', no 'channel' among the types
ChannelHiddenInManifest(n) ==
  wrapperManifests[n].defined =>
    /\ \A i \in 1..Len(wrapperManifests[n].catalogs) :
         wrapperManifests[n].catalogs[i].type # "channel"
    /\ "channel" \notin Range(wrapperManifests[n].types)

\* C25: in the relabelling revision (index_b) the manifest shows every
\* channel-typed upstream catalog with type 'movie' and lists no type
\* 'channel', and every POST the proxy forwards for the id of such a
\* catalog, on /catalog as on /stream, carries the type 'channel'.
C25_ChannelPolicyConsistent ==
  variant = "index_b" =>
    /\ \A n \in ConfigNames : ChannelHiddenInManifest(n)
    /\ (req.method = "POST" /\ req.path[1] \in {"catalog", "stream"}
          /\ req.body.id \in ChannelIdsBound(req.config)) =>
         \A i \in 1..Len(req.calls) : req.calls[i].body.type = "channel"

\* the upstream of each channel-typed catalog the bound upstreams of n
\* serve, in binding order and then in the upstream's catalog order
ChannelCatalogBases(n) ==
  Flatten([k \in 1..Len(configs[n].list) |->
             LET b  == configs[n].list[k].base
                 ch == SelectSeq(upManifest[b].data.catalogs.val,
                                 LAMBDA c : c.type = "channel")
             IN [i \in 1..Len(ch) |-> b]])

\* the metas those upstreams returned at initialization, put end to end
PrefetchedListing(n) ==
  Flatten([j \in 1..Len(ChannelCatalogBases(n)) |->
             Answer(ChannelCatalogBases(n)[j], init[n].fetched[j])])

\* C26: in the pre-fetch revision (index_a) GET /channels issues no call;
\* once the configuration's manifest is stored, its channel listing is the
\* metas the bound upstreams returned for their channel-typed catalogs at
\* initialization, in binding order and then catalog order, a failed
\* pre-fetch adding nothing; the stored manifest never changes again, and
\* every 200 answer of GET /channels carries that listing.
C26_ChannelListingPrefetched ==
  /\ [](variant = "index_a" =>
          /\ \A n \in ConfigFiles :
               wrapperManifests[n].defined =>
                 /\ Len(init[n].fetched) = Len(ChannelCatalogBases(n))
                 /\ wrapperManifests[n].channels = PrefetchedListing(n)
          /\ req.handler = "getChannels" =>
               /\ req.calls = <<>>
               /\ req.pc = "responded"
               /\ req.resp.key = "channels"
               /\ IF req.resp.status = 200
                  THEN req.resp.arr = PrefetchedListing(req.config)
                  ELSE req.resp.status = 404 /\ req.resp.arr = <<>>)
  /\ [][\A n \in ConfigFiles :
          wrapperManifests[n].defined => wrapperManifests'[n] = wrapperManifests[n]]_vars

\* two bound upstreams each serve a channel catalog, one pre-fetch failed
\* and the other came back, and GET /channels answered the one block
C26_Witness ==
  /\ variant = "index_a"
  /\ req.handler = "getChannels" /\ req.pc = "responded"
  /\ req.resp.status = 200
  /\ Len(ChannelCatalogBases(req.config)) = 2
  /\ init[req.config].fetched = <<"failed", "ok">>
  /\ req.resp.arr = Block(ChannelCatalogBases(req.config)[2])

====
